---- MODULE Spec2Model ----
(***************************************************************************)
(* Model of tools/optimizer-server/src/main.rs: the fanotify optimizer     *)
(* server.  main() optionally joins the PID and mount namespaces of a      *)
(* target process, forks, and the child marks a mount with fanotify and    *)
(* runs a poll loop over {fanotify fd, SIGTERM self-pipe}.  For every      *)
(* record read from the fanotify fd the child resolves the path, stats it  *)
(* and, unless the path is already in event_duplicate, writes one JSON     *)
(* line to stdout.  The parent waits for the child.                        *)
(*                                                                         *)
(* Environment (kernel, file system, stdout, signals) is nondeterministic: *)
(* every fallible call of the source may succeed or fail.  Writes to the   *)
(* diagnostic stream (eprintln!) are taken to succeed.                     *)
(***************************************************************************)
EXTENDS Integers, Sequences, FiniteSets, TLC

(* ------------------------------ bounds -------------------------------- *)
\* number of file accesses the kernel reports during one run
MaxEvents == 3

(* --------------------------- program constants ------------------------ *)
\* mem::size_of::<FanotifyEvent>(): u32 + u8 + u8 + u16 + u64 + i32 + i32
FAN_EVENT_METADATA_LEN == 24
\* the read buffer holds FAN_EVENT_METADATA_LEN * 1024 bytes
BufRecords == 1024
\* width given to usize: TLC's integers are 32 bits wide, so the 64-bit
\* usize is scaled to 30 bits, still far beyond the bytes of the buffer
UsizeBits == 30

Paths == {"/data/a", "/data/b"}
Sizes == {512, 1024}
NoPath == "<none>"

VARIABLES
    envPid,       \* TRUE iff _MNTNS_PID is set (get_pid() is Some)
    mainPc,       \* position of the initial process (the parent after fork)
    mainStatus,   \* "running" or the exit status of the initial process
    nsLog,        \* namespaces set_ns was called for, with the result
    waitRes,      \* what waitpid returned to the parent
    childPc,      \* position of the forked child
    childStatus,  \* "none", "running", or how the child terminated
    watchInit,    \* fanotify_init succeeded (in the child)
    watchMarked,  \* fanotify_mark succeeded (in the child)
    sigRegistered,\* pipe::register(SIGTERM, writer) succeeded
    sigDelivered, \* a SIGTERM has been delivered to the child
    termReadable, \* the reader end of the socket pair holds a byte
    pending,      \* kernel queue of the fanotify group: accessed files
    pollRes,      \* result of the last poll() call
    batch,        \* records of the current read_fanotify not yet handled
    openFds,      \* event descriptors open in the child
    closeCount,   \* close_fd calls per event descriptor
    event_duplicate, \* Vec<String> of handle_fanotify_event
    stdout,       \* what has been written to standard output
    stderr,       \* the lines written to the diagnostic stream (as a set)
    clock,        \* BEGIN_TIME.elapsed() as last written to an EventInfo;
                  \* the monotonic clock has advanced at the next reading
    nRead,        \* number of records read from the fanotify fd so far
    lastStage,    \* where the last handle_event of this batch returned
    firstSeen,    \* history: paths in the order handle_event resolved them
    firstWritten  \* history: paths in the order a whole line was written

vars == <<envPid, mainPc, mainStatus, nsLog, waitRes, childPc, childStatus,
          watchInit, watchMarked, sigRegistered, sigDelivered, termReadable,
          pending, pollRes, batch, openFds, closeCount,
          event_duplicate, stdout, stderr, clock, nRead, lastStage,
          firstSeen, firstWritten>>

mainVars == <<envPid, mainPc, mainStatus, nsLog, waitRes>>
loopVars == <<pollRes, batch, openFds, closeCount, event_duplicate, clock,
              nRead, lastStage, firstSeen, firstWritten>>
watchVars == <<watchInit, watchMarked>>
sigVars == <<sigRegistered, sigDelivered, termReadable>>

EventIds == 1..MaxEvents

NoPoll == [kind |-> "none", n |-> 0, watch |-> FALSE, term |-> FALSE]

Min(a, b) == IF a <= b THEN a ELSE b


(* ------------------------- pure functions ----------------------------- *)

\* one line of standard output: an EventInfo serialized by serde_json
Info(path, size, elapsed) ==
    [kind |-> "info", path |-> path, size |-> size, elapsed |-> elapsed]

\* the line println!("received SIGTERM signal") writes
Notice == [kind |-> "text", path |-> "received SIGTERM signal",
           size |-> 0, elapsed |-> 0]

\* Vec::contains
Contains(seq, x) == \E i \in 1..Len(seq) : seq[i] = x

\* get_fd_path: read_link("/proc/self/fd/{fd}"); linkOk is the result of
\* the readlink call for this descriptor
get_fd_path(rec, linkOk) == IF linkOk THEN rec.file ELSE NoPath

\* what fs::metadata can return: an error, or the file's length
MetaResults ==
    {[ok |-> FALSE, len |-> 0]} \cup {[ok |-> TRUE, len |-> s] : s \in Sizes}

\* variant of generate_event_info: the fields size and elapsed are swapped
generate_event_info_swapped(path, meta, now) ==
    IF ~meta.ok
    THEN [ok |-> FALSE, info |-> Info(path, 0, 0)]
    ELSE [ok |-> TRUE, info |-> Info(path, now, meta.len)]

\* generate_event_info: fs::metadata(path), mapped to the EventInfo with
\* the elapsed time since BEGIN_TIME
generate_event_info(path, meta, now) ==
    IF ~meta.ok
    THEN [ok |-> FALSE, info |-> Info(path, 0, 0)]
    ELSE [ok |-> TRUE, info |-> Info(path, meta.len, now)]

\* what the three fallible steps of send_event can do
SendOutcomes == {"ok", "serde", "write", "flush"}

\* variant of send_event: the line is put in front of the output
send_event_prepend(out, info, outcome) ==
    CASE outcome = "ok"    -> [ok |-> TRUE,  out |-> <<info>> \o out]
      [] outcome = "serde" -> [ok |-> FALSE, out |-> out]
      [] outcome = "write" -> [ok |-> FALSE, out |-> out]
      [] outcome = "flush" -> [ok |-> FALSE, out |-> <<info>> \o out]

\* send_event: serde_json::to_string, write_all, flush.  A failed
\* serialization writes nothing; a failed write_all is taken to have
\* written nothing; a failed flush follows a completed write_all.
send_event(out, info, outcome) ==
    CASE outcome = "ok"            -> [ok |-> TRUE,  out |-> Append(out, info)]
      [] outcome = "serde"         -> [ok |-> FALSE, out |-> out]
      [] outcome = "write"         -> [ok |-> FALSE, out |-> out]
      [] outcome = "flush"         -> [ok |-> FALSE, out |-> Append(out, info)]

\* handle_event: the stage names the point the function returned from
handle_event(rec, dup, out, linkOk, meta, now, outcome) ==
    LET path == get_fd_path(rec, linkOk)
        gen  == generate_event_info(path, meta, now)
        sent == send_event(out, gen.info, outcome)
    IN  IF path = NoPath
        THEN [ok |-> FALSE, stage |-> "resolve_err", dup |-> dup, out |-> out]
        ELSE IF ~gen.ok
        THEN [ok |-> FALSE, stage |-> "meta_err", dup |-> dup, out |-> out]
        ELSE IF Contains(dup, gen.info.path)
        THEN [ok |-> TRUE, stage |-> "dup", dup |-> dup, out |-> out]
        ELSE IF ~sent.ok
        THEN [ok |-> FALSE, stage |-> outcome, dup |-> dup, out |-> sent.out]
        ELSE [ok |-> TRUE, stage |-> "sent",
              dup |-> Append(dup, gen.info.path), out |-> sent.out]

\* `sizeof as usize / *FAN_EVENT_METADATA_LEN` of read_fanotify: the isize
\* returned by read is reinterpreted as usize before the division
ReadCount(ret) ==
    ((ret + 2^UsizeBits) % (2^UsizeBits)) \div FAN_EVENT_METADATA_LEN

\* variant of close_fd: the descriptor is not closed
close_fd_missing(tbl, fd) == tbl

\* close_fd: libc::close(fd) on the child's descriptor table; tbl.open are
\* the open event descriptors, tbl.closes the close calls made on each
close_fd(tbl, fd) ==
    [open |-> tbl.open \ {fd},
     closes |-> [tbl.closes EXCEPT ![fd] = @ + 1]]

(* ----------------------------- initial state -------------------------- *)

Init ==
    /\ envPid \in BOOLEAN
    /\ mainPc = "main"
    /\ mainStatus = "running"
    /\ nsLog = <<>>
    /\ waitRes = "none"
    /\ childPc = "unborn"
    /\ childStatus = "none"
    /\ watchInit = FALSE
    /\ watchMarked = FALSE
    /\ sigRegistered = FALSE
    /\ sigDelivered = FALSE
    /\ termReadable = FALSE
    /\ pending = <<>>
    /\ pollRes = NoPoll
    /\ batch = <<>>
    /\ openFds = {}
    /\ closeCount = [i \in EventIds |-> 0]
    /\ event_duplicate = <<>>
    /\ stdout = <<>>
    /\ stderr = {}
    /\ clock = 0
    /\ nRead = 0
    /\ lastStage = "none"
    /\ firstSeen = <<>>
    /\ firstWritten = <<>>

(* ------------------------- main / the parent -------------------------- *)

\* The match arms of the loop end an iteration; the values the iteration
\* worked on (the poll result, the last handle_event result) are dead then.

\* the initial process returns from main(): exit status 0
MainReturns(msgs) ==
    /\ mainPc' = "done"
    /\ mainStatus' = "exit0"
    /\ stderr' = stderr \cup msgs

\* main, line 254: if let Some(pid) = get_pid()
GetPid ==
    /\ mainPc = "main"
    /\ mainPc' = IF envPid THEN "join_pid" ELSE "fork"
    /\ UNCHANGED <<envPid, mainStatus, nsLog, waitRes, childPc, childStatus,
                   watchVars, sigVars, pending, loopVars, stdout, stderr>>

\* variant of SetNsPid: a failed PID namespace join is logged only
SetNsPidIgnored ==
    /\ mainPc = "join_pid"
    /\ \E ok \in BOOLEAN :
         /\ nsLog' = Append(nsLog, [ns |-> "pid", ok |-> ok])
         /\ stderr' = IF ok THEN stderr
                      ELSE stderr \cup {"join namespace failed"}
    /\ mainPc' = "join_mnt"
    /\ UNCHANGED <<envPid, mainStatus, waitRes, childPc, childStatus,
                   watchVars, sigVars, pending, loopVars, stdout>>

\* join_namespace, first set_ns: /proc/{pid}/ns/pid with CLONE_NEWPID;
\* on Err main logs and returns
SetNsPid ==
    /\ mainPc = "join_pid"
    /\ \E ok \in BOOLEAN :
         /\ nsLog' = Append(nsLog, [ns |-> "pid", ok |-> ok])
         /\ IF ok
            THEN /\ mainPc' = "join_mnt"
                 /\ UNCHANGED <<mainStatus, stderr>>
            ELSE MainReturns({"join namespace failed"})
    /\ UNCHANGED <<envPid, waitRes, childPc, childStatus, watchVars, sigVars,
                   pending, loopVars, stdout>>

\* variant of SetNsMnt: the error of the second set_ns is logged only
SetNsMntIgnored ==
    /\ mainPc = "join_mnt"
    /\ \E ok \in BOOLEAN :
         /\ nsLog' = Append(nsLog, [ns |-> "mnt", ok |-> ok])
         /\ stderr' = IF ok THEN stderr
                      ELSE stderr \cup {"join namespace failed"}
    /\ mainPc' = "fork"
    /\ UNCHANGED <<envPid, mainStatus, waitRes, childPc, childStatus,
                   watchVars, sigVars, pending, loopVars, stdout>>

\* join_namespace, second set_ns: /proc/{pid}/ns/mnt with CLONE_NEWNS
SetNsMnt ==
    /\ mainPc = "join_mnt"
    /\ \E ok \in BOOLEAN :
         /\ nsLog' = Append(nsLog, [ns |-> "mnt", ok |-> ok])
         /\ IF ok
            THEN /\ mainPc' = "fork"
                 /\ UNCHANGED <<mainStatus, stderr>>
            ELSE MainReturns({"join namespace failed"})
    /\ UNCHANGED <<envPid, waitRes, childPc, childStatus, watchVars, sigVars,
                   pending, loopVars, stdout>>

\* main, line 261: fork(); the child starts in start_fanotify
Fork ==
    /\ mainPc = "fork"
    /\ \E ok \in BOOLEAN :
         IF ok
         THEN /\ mainPc' = "getpgid"
              /\ childPc' = "init_fanotify"
              /\ childStatus' = "running"
              /\ UNCHANGED <<mainStatus, stderr>>
         ELSE /\ MainReturns({"fork failed"})
              /\ UNCHANGED <<childPc, childStatus>>
    /\ UNCHANGED <<envPid, nsLog, waitRes, watchVars, sigVars, pending,
                   loopVars, stdout>>

\* parent, lines 268-272: getpgid(child), logged either way
GetPgid ==
    /\ mainPc = "getpgid"
    /\ \E ok \in BOOLEAN :
         stderr' = stderr \cup {IF ok THEN "forked optimizer server subprocess"
                                        ELSE "failed to get pgid"}
    /\ mainPc' = "waitpid"
    /\ UNCHANGED <<envPid, mainStatus, nsLog, waitRes, childPc, childStatus,
                   watchVars, sigVars, pending, loopVars, stdout>>

\* variant of WaitStatusOf: every termination is taken for a normal exit
WaitStatusOfExited(status) == "exited"

\* the WaitStatus of a terminated child
WaitStatusOf(status) ==
    IF status \in {"sigterm", "sigabrt"} THEN "signaled" ELSE "exited"

\* the line the parent logs for a waitpid result (none for a normal exit)
WaitMessage(res) ==
    CASE res = "signaled" -> {"child process was killed by signal"}
      [] res = "err"      -> {"failed to wait for child process"}
      [] OTHER            -> {}

\* variant of WaitPid: waitpid with WNOHANG returns at once, also for a
\* child that is still running
WaitPidNoHang ==
    /\ mainPc = "waitpid"
    /\ \E failed \in BOOLEAN :
         LET res == IF failed THEN "err"
                    ELSE IF childStatus = "running" THEN "alive"
                    ELSE WaitStatusOf(childStatus)
         IN  /\ waitRes' = res
             /\ MainReturns(WaitMessage(res))
    /\ UNCHANGED <<envPid, nsLog, childPc, childStatus, watchVars, sigVars,
                   pending, loopVars, stdout>>

\* parent, lines 274-285: waitpid(child, None) blocks until the child has
\* terminated (no WUNTRACED, so a stop is not reported); it then returns the
\* status, or an error (ECHILD when SIGCHLD is ignored)
WaitPid ==
    /\ mainPc = "waitpid"
    /\ childStatus \notin {"none", "running"}
    /\ \E failed \in BOOLEAN :
         LET res == IF failed THEN "err" ELSE WaitStatusOf(childStatus)
         IN  /\ waitRes' = res
             /\ MainReturns(WaitMessage(res))
    /\ UNCHANGED <<envPid, nsLog, childPc, childStatus, watchVars, sigVars,
                   pending, loopVars, stdout>>


(* ------------------------------ the child ----------------------------- *)

\* the child returns from main() (exit status 0) after logging msgs
ChildReturns(msgs) ==
    /\ childPc' = "exited"
    /\ childStatus' = "exit0"
    /\ stderr' = stderr \cup msgs

\* the child dies abnormally: a panic (exit status 101) or an abort
ChildCrashes(how) ==
    /\ childPc' = IF how = "exit101" THEN "exited" ELSE "killed"
    /\ childStatus' = how
    /\ stderr' = stderr \cup {"panic"}

\* start_fanotify, line 241: init_fanotify()?
InitFanotify ==
    /\ childPc = "init_fanotify"
    /\ \E ok \in BOOLEAN :
         IF ok
         THEN /\ watchInit' = TRUE
              /\ childPc' = "mark_fanotify"
              /\ UNCHANGED <<childStatus, stderr>>
         ELSE /\ ChildReturns({"failed to start fanotify server"})
              /\ UNCHANGED watchInit
    /\ UNCHANGED <<mainVars, watchMarked, sigVars, pending, loopVars, stdout>>

\* variant of MarkFanotify: the error of mark_fanotify is logged only
MarkFanotifyIgnored ==
    /\ childPc = "mark_fanotify"
    /\ \E ok \in BOOLEAN :
         /\ watchMarked' = ok
         /\ stderr' = IF ok THEN stderr
                      ELSE stderr \cup {"failed to start fanotify server"}
    /\ childPc' = "socketpair"
    /\ UNCHANGED <<mainVars, childStatus, watchInit, sigVars, pending,
                   loopVars, stdout>>

\* start_fanotify, line 242: mark_fanotify(fd, get_target())?
MarkFanotify ==
    /\ childPc = "mark_fanotify"
    /\ \E ok \in BOOLEAN :
         IF ok
         THEN /\ watchMarked' = TRUE
              /\ childPc' = "socketpair"
              /\ UNCHANGED <<childStatus, stderr>>
         ELSE /\ ChildReturns({"failed to start fanotify server"})
              /\ UNCHANGED watchMarked
    /\ UNCHANGED <<mainVars, watchInit, sigVars, pending, loopVars, stdout>>

\* handle_fanotify_event, lines 185-191: UnixStream::pair()
SocketPair ==
    /\ childPc = "socketpair"
    /\ \E ok \in BOOLEAN :
         IF ok
         THEN /\ childPc' = "register"
              /\ UNCHANGED <<childStatus, stderr>>
         ELSE ChildReturns({"failed to create a pair of sockets"})
    /\ UNCHANGED <<mainVars, watchVars, sigVars, pending, loopVars, stdout>>

\* handle_fanotify_event, lines 192-195: pipe::register(SIGTERM, writer)
Register ==
    /\ childPc = "register"
    /\ \E ok \in BOOLEAN :
         IF ok
         THEN /\ sigRegistered' = TRUE
              /\ childPc' = "poll"
              /\ UNCHANGED <<childStatus, stderr>>
         ELSE /\ ChildReturns({"failed to set SIGTERM signal handler"})
              /\ UNCHANGED sigRegistered
    /\ UNCHANGED <<mainVars, watchVars, sigDelivered, termReadable, pending,
                   loopVars, stdout>>

\* what poll(&mut fds, -1) can return in the current state: EINTR, another
\* error, 0, or the number of descriptors with events; POLLIN is reported
\* for the fanotify fd only when records are queued and for the reader only
\* when the signal pipe holds a byte
PollResults ==
    {[kind |-> "eintr", n |-> 0, watch |-> FALSE, term |-> FALSE],
     [kind |-> "error", n |-> 0, watch |-> FALSE, term |-> FALSE],
     [kind |-> "ok", n |-> 0, watch |-> FALSE, term |-> FALSE]}
    \cup {[kind |-> "ok", n |-> 1, watch |-> TRUE, term |-> FALSE] :
        x \in {y \in {1} : pending # <<>>}}
    \cup {[kind |-> "ok", n |-> 1, watch |-> FALSE, term |-> TRUE] :
        x \in {y \in {1} : termReadable}}
    \cup {[kind |-> "ok", n |-> 2, watch |-> TRUE, term |-> TRUE] :
        x \in {y \in {1} : pending # <<>> /\ termReadable}}

\* handle_fanotify_event, line 202: the call of poll
Poll ==
    /\ childPc = "poll"
    /\ \E r \in PollResults : pollRes' = r
    /\ childPc' = "polled"
    /\ UNCHANGED <<mainVars, childStatus, watchVars, sigVars, pending, batch,
                   openFds, closeCount, event_duplicate, stdout, stderr,
                   clock, nRead, lastStage, firstSeen, firstWritten>>

\* variant of PollEintr: EINTR is treated like any other poll error
PollEintrBreaks ==
    /\ childPc = "polled"
    /\ pollRes.kind = "eintr"
    /\ ChildReturns({"Poll error"})
    /\ UNCHANGED <<mainVars, watchVars, sigVars, pending, loopVars, stdout>>

\* lines 229-232: Err(EINTR) => continue
PollEintr ==
    /\ childPc = "polled"
    /\ pollRes.kind = "eintr"
    /\ childPc' = "poll"
    /\ pollRes' = NoPoll
    /\ UNCHANGED <<mainVars, childStatus, watchVars, sigVars, pending, batch,
                   openFds, closeCount, event_duplicate, clock, nRead,
                   lastStage, firstSeen, firstWritten, stdout, stderr>>

\* lines 233-234: any other Err => log, break; the child returns
PollError ==
    /\ childPc = "polled"
    /\ pollRes.kind = "error"
    /\ ChildReturns({"Poll error"})
    /\ UNCHANGED <<mainVars, watchVars, sigVars, pending, loopVars, stdout>>

\* lines 204-207: polled_num <= 0 => log, break; the child returns
PollZero ==
    /\ childPc = "polled"
    /\ pollRes.kind = "ok"
    /\ pollRes.n <= 0
    /\ ChildReturns({"polled_num <= 0!"})
    /\ UNCHANGED <<mainVars, watchVars, sigVars, pending, loopVars, stdout>>

\* the records of one successful read: the first count queued files, each
\* with a descriptor the kernel opened for it
Records(count) ==
    [i \in 1..count |-> [fd |-> nRead + i, file |-> pending[i]]]

\* what read(fanotify_fd, buffer, 24 * 1024) can return: -1, or the bytes
\* of as many queued records as fit the buffer
ReadReturns ==
    {0 - 1, Min(Len(pending), BufRecords) * FAN_EVENT_METADATA_LEN}

\* lines 209-211 with read_fanotify: fds[0] has POLLIN, read the records.
\* A record count beyond the buffer (read returned -1) makes
\* slice::from_raw_parts / extend_from_slice run over the allocation: the
\* build either panics (capacity overflow) or aborts.
ReadFanotify ==
    /\ childPc = "polled"
    /\ pollRes.kind = "ok"
    /\ pollRes.n > 0
    /\ pollRes.watch
    /\ \E ret \in ReadReturns :
         LET count == ReadCount(ret)
         IN  IF count <= BufRecords
             THEN /\ batch' = Records(count)
                  /\ pending' = SubSeq(pending, count + 1, Len(pending))
                  /\ openFds' = openFds \cup {nRead + i : i \in 1..count}
                  /\ nRead' = nRead + count
                  /\ childPc' = IF count = 0 THEN "check_term" ELSE "handle"
                  /\ UNCHANGED <<childStatus, stderr>>
             ELSE /\ \E how \in {"exit101", "sigabrt"} : ChildCrashes(how)
                  /\ UNCHANGED <<batch, pending, openFds, nRead>>
    /\ UNCHANGED <<mainVars, watchVars, sigVars, pollRes, closeCount,
                   event_duplicate, stdout, clock, lastStage, firstSeen,
                   firstWritten>>

\* lines 209-210: fds[0] has no POLLIN, nothing is read
SkipRead ==
    /\ childPc = "polled"
    /\ pollRes.kind = "ok"
    /\ pollRes.n > 0
    /\ ~pollRes.watch
    /\ childPc' = "check_term"
    /\ UNCHANGED <<mainVars, childStatus, watchVars, sigVars, pending,
                   loopVars, stdout, stderr>>

\* history: x joins the sequence of distinct values when cond holds
NoteFirst(seq, x, cond) ==
    IF cond /\ ~Contains(seq, x) THEN Append(seq, x) ELSE seq

\* the child's descriptor table, as close_fd takes it
FdTable == [open |-> openFds, closes |-> closeCount]

\* variant of AfterRecord: an Err of handle_event ends the `for` loop
AfterRecordBreaks(ok, rest) ==
    IF ~ok \/ rest = <<>> THEN "check_term" ELSE "handle"

\* where the `for` loop goes after a record: an Err of handle_event is
\* logged and the loop carries on; after the last record the loop ends
AfterRecord(ok, rest) == IF rest = <<>> THEN "check_term" ELSE "handle"

\* lines 212-218, one iteration of `for event in events`: handle_event,
\* the log line on Err, then close_fd(event.fd)
HandleRecord ==
    /\ childPc = "handle"
    /\ batch # <<>>
    /\ \E linkOk \in BOOLEAN, meta \in MetaResults, outcome \in SendOutcomes :
         LET rec == Head(batch)
             now == clock + 1
             r   == handle_event(rec, event_duplicate, stdout, linkOk,
                                 meta, now, outcome)
         IN  /\ clock' = IF r.stage \in {"sent", "flush"} THEN now ELSE clock
             /\ event_duplicate' = r.dup
             /\ stdout' = r.out
             /\ stderr' = IF r.ok THEN stderr
                          ELSE stderr \cup {"failed to handle event"}
             /\ openFds' = close_fd(FdTable, rec.fd).open
             /\ closeCount' = close_fd(FdTable, rec.fd).closes
             /\ lastStage' = r.stage
             /\ firstSeen' = NoteFirst(firstSeen, rec.file,
                                       r.stage # "resolve_err")
             /\ firstWritten' = NoteFirst(firstWritten, rec.file,
                                          r.stage \in {"sent", "flush"})
             /\ childPc' = AfterRecord(r.ok, Tail(batch))
    /\ batch' = Tail(batch)
    /\ UNCHANGED <<mainVars, childStatus, watchVars, sigVars, pending,
                   pollRes, nRead>>

\* variant of CheckTerm: the accumulated paths are emitted when the
\* termination is seen (emission batched at exit)
CheckTermEmitting ==
    /\ childPc = "check_term"
    /\ IF pollRes.term
       THEN /\ stdout' = stdout \o [i \in 1..Len(event_duplicate) |->
                                       Info(event_duplicate[i], 0, clock)]
            /\ ChildReturns({})
            /\ UNCHANGED <<pollRes, lastStage>>
       ELSE /\ childPc' = "poll"
            /\ pollRes' = NoPoll
            /\ lastStage' = "none"
            /\ UNCHANGED <<childStatus, stdout, stderr>>
    /\ UNCHANGED <<mainVars, watchVars, sigVars, pending, batch, openFds,
                   closeCount, event_duplicate, clock, nRead, firstSeen,
                   firstWritten>>

\* variant of CheckTerm: the termination is printed but the loop goes on
CheckTermContinues ==
    /\ childPc = "check_term"
    /\ stdout' = IF pollRes.term THEN Append(stdout, Notice) ELSE stdout
    /\ childPc' = "poll"
    /\ pollRes' = NoPoll
    /\ lastStage' = "none"
    /\ UNCHANGED <<mainVars, childStatus, watchVars, sigVars, pending, batch,
                   openFds, closeCount, event_duplicate, clock, nRead,
                   firstSeen, firstWritten, stderr>>

\* lines 222-227: fds[1] has POLLIN => println!, break; the child returns.
\* println! panics when the write to stdout fails.  Otherwise the loop
\* polls again.
CheckTerm ==
    /\ childPc = "check_term"
    /\ IF pollRes.term
       THEN /\ \E printed \in BOOLEAN :
                 IF printed
                 THEN /\ stdout' = Append(stdout, Notice)
                      /\ ChildReturns({})
                 ELSE /\ ChildCrashes("exit101")
                      /\ UNCHANGED stdout
            /\ UNCHANGED <<pollRes, lastStage>>
       ELSE /\ childPc' = "poll"
            /\ pollRes' = NoPoll
            /\ lastStage' = "none"
            /\ UNCHANGED <<childStatus, stdout, stderr>>
    /\ UNCHANGED <<mainVars, watchVars, sigVars, pending, batch, openFds,
                   closeCount, event_duplicate, clock, nRead, firstSeen,
                   firstWritten>>

(* ---------------------------- environment ----------------------------- *)

\* variant of Sigterm: the handler itself prints the notice
SigtermPrints ==
    /\ childStatus = "running"
    /\ sigDelivered' = TRUE
    /\ IF sigRegistered
       THEN /\ termReadable' = TRUE
            /\ stdout' = Append(stdout, Notice)
            /\ UNCHANGED <<childPc, childStatus>>
       ELSE /\ childPc' = "killed"
            /\ childStatus' = "sigterm"
            /\ UNCHANGED <<termReadable, stdout>>
    /\ UNCHANGED <<mainVars, watchVars, sigRegistered, pending, loopVars,
                   stderr>>

\* SIGTERM is delivered to the child (any number of times): before
\* pipe::register it has the default disposition and kills the child;
\* afterwards the handler writes one byte to the writer end of the socket
\* pair
Sigterm ==
    /\ childStatus = "running"
    /\ sigDelivered' = TRUE
    /\ IF sigRegistered
       THEN /\ termReadable' = TRUE
            /\ UNCHANGED <<childPc, childStatus>>
       ELSE /\ childPc' = "killed"
            /\ childStatus' = "sigterm"
            /\ UNCHANGED termReadable
    /\ UNCHANGED <<mainVars, watchVars, sigRegistered, pending, loopVars,
                   stdout, stderr>>

\* some process opens, reads or executes a file on the marked mount: the
\* kernel queues a record for the fanotify group
FileAccess ==
    /\ watchMarked
    /\ childStatus = "running"
    /\ nRead + Len(pending) < MaxEvents
    /\ \E p \in Paths : pending' = Append(pending, p)
    /\ UNCHANGED <<mainVars, childPc, childStatus, watchVars, sigVars,
                   loopVars, stdout, stderr>>

Next ==
    \/ GetPid \/ SetNsPid \/ SetNsMnt \/ Fork \/ GetPgid \/ WaitPid
    \/ InitFanotify \/ MarkFanotify \/ SocketPair \/ Register
    \/ Poll \/ PollEintr \/ PollError \/ PollZero
    \/ ReadFanotify \/ SkipRead \/ HandleRecord \/ CheckTerm
    \/ Sigterm \/ FileAccess

Spec == Init /\ [][Next]_vars


(* ------------------------------ properties ---------------------------- *)

\* the EventInfo lines of an output, in order
InfoLines(out) == SelectSeq(out, LAMBDA e : e.kind = "info")

\* the paths of the EventInfo lines of an output, in order
InfoPaths(out) == [i \in 1..Len(InfoLines(out)) |-> InfoLines(out)[i].path]

\* the distinct values of a sequence, in the order of their first occurrence
RECURSIVE Distinct(_)
Distinct(seq) ==
    IF seq = <<>> THEN <<>>
    ELSE LET front == Distinct(SubSeq(seq, 1, Len(seq) - 1))
             last  == seq[Len(seq)]
         IN  IF Contains(front, last) THEN front ELSE Append(front, last)

\* the position of x in a sequence of distinct values
IndexOf(seq, x) == CHOOSE i \in 1..Len(seq) : seq[i] = x

\* number of EventInfo lines for path p in the output
InfoCount(p) ==
    Cardinality({i \in 1..Len(stdout) :
                   stdout[i].kind = "info" /\ stdout[i].path = p})

\* the child has left the loop through the termination branch
TermObserved == childPc = "exited" /\ pollRes.kind = "ok" /\ pollRes.term

\* set_ns failed for one of the two namespaces
JoinFailed == \E i \in 1..Len(nsLog) : ~nsLog[i].ok

\* the child logged a failure of init_fanotify, mark_fanotify,
\* UnixStream::pair or pipe::register
StartupFailed ==
    stderr \cap {"failed to start fanotify server",
                 "failed to create a pair of sockets",
                 "failed to set SIGTERM signal handler"} # {}

\* the stages at which handle_event returns an Err
FailStages == {"resolve_err", "meta_err", "serde", "write", "flush"}

\* the child takes a step of its own out of its current position
ChildMoves == childPc' # childPc

(* C1, as stated: the structured output is written at most once, and only
   once the wait loop has observed the termination notification, never
   while a watch event is processed. *)
C1_EmittedOnceAtTermination ==
    /\ Len(InfoLines(stdout)) <= 1
    /\ (InfoLines(stdout) # <<>> => TermObserved)

(* C1, amended: the structured output is streamed.  Every EventInfo line is
   appended while a drained record is processed, at most one per record;
   the only other write to stdout is the text line of the termination
   branch, with which the child leaves the loop; nothing is written once
   the child has terminated. *)
C1_StreamedEmission ==
    [][ /\ (InfoLines(stdout') # InfoLines(stdout)) =>
              /\ childPc = "handle"
              /\ childPc' \in {"handle", "check_term"}
              /\ Len(stdout') = Len(stdout) + 1
              /\ SubSeq(stdout', 1, Len(stdout)) = stdout
              /\ stdout'[Len(stdout')].kind = "info"
        /\ (stdout' # stdout /\ childPc # "handle") =>
              /\ childPc = "check_term"
              /\ pollRes.term
              /\ stdout' = Append(stdout, Notice)
              /\ childPc' = "exited"
        /\ (childPc \in {"exited", "killed"}) => stdout' = stdout
      ]_vars

\* C1: two lines were streamed, then the termination was observed
C1_Witness ==
    /\ TermObserved
    /\ Len(InfoLines(stdout)) >= 2
    /\ stdout[Len(stdout)] = Notice

(* C2, as stated (its last part): no path ever appears twice in the output,
   whatever resolution, metadata or write failures occur in between. *)
C2_NoPathTwice == \A p \in Paths : InfoCount(p) <= 1

(* C3, as stated: the order of the entries in the output is the order in
   which the distinct paths were first seen by handle_event, also when the
   first record of a path failed and a later one succeeded. *)
C3_FirstSeenOrder ==
    LET d == Distinct(InfoPaths(stdout))
    IN  \A i, j \in 1..Len(d) :
          i < j => IndexOf(firstSeen, d[i]) < IndexOf(firstSeen, d[j])

(* C3, amended: the order of the entries in the output is the order in
   which the distinct paths were first written, that is first passed
   resolution, metadata fetch and write_all; a path whose earlier records
   failed before the write is placed by its first written record. *)
C3_FirstWrittenOrder ==
    /\ Distinct(InfoPaths(stdout)) = firstWritten
    /\ \A i \in 1..Len(firstWritten) : Contains(firstSeen, firstWritten[i])

\* C3: a path seen first was written second, after a failed first record
C3_Witness ==
    /\ Len(firstSeen) = 2
    /\ Len(firstWritten) = 2
    /\ firstWritten[1] = firstSeen[2]
    /\ firstWritten[2] = firstSeen[1]
    /\ InfoPaths(stdout) = firstWritten

\* the descriptors of the records not yet handled
BatchFds == {batch[i].fd : i \in 1..Len(batch)}

(* C4: every record returned by a read has its descriptor closed exactly
   once before the loop polls again or exits, whatever handle_event
   returned: a descriptor is open exactly while its record waits in the
   batch, is closed once when its record has been handled, never twice, and
   the batch is empty whenever the child is outside the `for` loop. *)
C4_NoDescriptorLeak ==
    /\ \A id \in EventIds :
         /\ closeCount[id] <= 1
         /\ id \in openFds <=> id \in BatchFds
         /\ closeCount[id] = 1 <=> (id <= nRead /\ id \notin BatchFds)
    /\ childPc # "handle" => batch = <<>>

\* C4: two records were read, one failed in handle_event, both are closed
\* and the loop polls again
C4_Witness ==
    /\ childPc = "poll"
    /\ nRead >= 2
    /\ closeCount[1] = 1 /\ closeCount[2] = 1
    /\ "failed to handle event" \in stderr
    /\ Len(event_duplicate) = 1

(* C5, as stated: once a poll return reports the termination channel
   readable, no further record is read or handled, also when the same
   return reports the fanotify fd readable. *)
C5_NoDrainAfterTermReported ==
    (pollRes.kind = "ok" /\ pollRes.term) => (childPc # "handle" /\ batch = <<>>)

(* C5, amended: once a poll return reports the termination channel
   readable the child never polls again; it reads at most the one batch of
   that same return (when it also reports the fanotify fd readable),
   handles it, and then leaves the loop. *)
C5_OneDrainThenExit ==
    [][ (pollRes.kind = "ok" /\ pollRes.term
         /\ childPc \in {"polled", "handle", "check_term"}) =>
           /\ childPc' \in {"polled", "handle", "check_term", "exited", "killed"}
           /\ nRead' # nRead => (childPc = "polled" /\ pollRes.watch)
           /\ (childPc = "check_term" /\ ChildMoves) => childPc' = "exited"
           /\ pollRes' = pollRes
      ]_vars

\* C5: the child left the loop after handling the batch of the poll return
\* that reported both descriptors readable
C5_Witness ==
    /\ TermObserved
    /\ pollRes.watch
    /\ nRead >= 1
    /\ closeCount[nRead] = 1

(* C6: when a target pid is given and joining its PID or its mount
   namespace fails, the process terminates without forking, without any
   watch initialised and with nothing written to stdout. *)
C6_JoinFailureStopsStartup ==
    JoinFailed =>
      /\ envPid
      /\ mainPc = "done"
      /\ mainStatus # "running"
      /\ childPc = "unborn" /\ childStatus = "none"
      /\ ~watchInit /\ ~watchMarked
      /\ stdout = <<>>

\* C6: the PID namespace was joined and the mount namespace join failed
C6_Witness ==
    /\ Len(nsLog) = 2
    /\ nsLog[1].ok /\ ~nsLog[2].ok
    /\ mainPc = "done"

(* C7: when init_fanotify, mark_fanotify, UnixStream::pair or
   pipe::register fails, the child exits without ever polling, handles no
   record and writes nothing to stdout, and the parent finishes only after
   its waitpid returned for that exit. *)
C7_ChildStartupFailure ==
    StartupFailed =>
      /\ childPc = "exited"
      /\ pollRes = NoPoll
      /\ nRead = 0 /\ batch = <<>> /\ event_duplicate = <<>>
      /\ stdout = <<>>
      /\ ~sigRegistered
      /\ mainPc \in {"getpgid", "waitpid", "done"}
      /\ mainPc = "done" => waitRes \in {"exited", "err"}

\* C7: pipe::register failed after the mount was marked, and the parent
\* saw the child exit
C7_Witness ==
    /\ "failed to set SIGTERM signal handler" \in stderr
    /\ watchMarked
    /\ mainPc = "done"
    /\ waitRes = "exited"

(* C8, as stated: a failed namespace join, fanotify init, mount mark or
   signal registration ends the affected process (the program for the
   join, the child otherwise) with a non-zero exit status. *)
C8_StartupFailureNonZero ==
    /\ (JoinFailed /\ mainStatus # "running") => mainStatus # "exit0"
    /\ (StartupFailed /\ childStatus # "running") => childStatus # "exit0"

(* C9: an Err of handle_event (resolution, metadata, serialization or write
   failure) never ends the loop: the record is not entered in
   event_duplicate, the remaining records of the batch stay to be handled,
   the `for` loop ends only with the last record, and a batch without
   termination is followed by the next poll. *)
C9_PerEventErrorsContained ==
    [][ /\ (childPc = "handle" /\ batch' # batch /\ lastStage' \in FailStages) =>
              /\ batch' = Tail(batch)
              /\ event_duplicate' = event_duplicate
              /\ childStatus' = "running"
              /\ childPc' = IF batch' = <<>> THEN "check_term" ELSE "handle"
        /\ (childPc = "check_term" /\ ~pollRes.term /\ ChildMoves) =>
              childPc' = "poll"
      ]_vars

\* C9: a record failed and the rest of its batch is still being handled
C9_Witness ==
    /\ childPc = "handle"
    /\ lastStage \in FailStages
    /\ batch # <<>>

(* C10: a poll that fails with EINTR is retried: the child is back at the
   poll with event_duplicate, the output and everything else of the loop
   unchanged, so that the same can happen again any number of times; a poll
   that fails otherwise or returns 0 ends the loop and the child exits
   without writing anything. *)
C10_WaitFailureHandling ==
    [][ /\ (childPc = "polled" /\ pollRes.kind = "eintr" /\ ChildMoves) =>
              /\ childPc' = "poll"
              /\ pollRes' = NoPoll
              /\ UNCHANGED <<event_duplicate, stdout, stderr, childStatus,
                             batch, openFds, closeCount, nRead, clock>>
        /\ (childPc = "polled" /\ ChildMoves
            /\ (pollRes.kind = "error" \/ (pollRes.kind = "ok" /\ pollRes.n <= 0))) =>
              /\ childPc' = "exited"
              /\ childStatus' = "exit0"
              /\ stdout' = stdout
      ]_vars

\* C10: poll returned EINTR while paths had already been written
C10_Witness ==
    /\ childPc = "polled"
    /\ pollRes.kind = "eintr"
    /\ event_duplicate # <<>>
    /\ stdout # <<>>

(* C11, as stated: handling a record whose path resolves and is already in
   event_duplicate is a no-op: it yields no error, writes nothing and
   leaves event_duplicate unchanged, also when the file has been removed
   since. *)
C11_RepeatIsNoOp ==
    [][ (childPc = "handle" /\ batch' # batch
         /\ lastStage' # "resolve_err"
         /\ Contains(event_duplicate, Head(batch).file)) =>
           /\ lastStage' = "dup"
           /\ stdout' = stdout
           /\ event_duplicate' = event_duplicate
      ]_vars

\* fork() has been called: the parent is past it, or it failed
ForkAttempted ==
    mainPc \in {"getpgid", "waitpid"} \/ childPc # "unborn"
    \/ "fork failed" \in stderr

(* C12: with a target pid, set_ns is called for the PID namespace first and
   for the mount namespace second, the second only after the first
   succeeded, and fork and init_fanotify happen only after both succeeded;
   without a target pid set_ns is never called. *)
C12_JoinOrdering ==
    /\ Len(nsLog) <= 2
    /\ Len(nsLog) >= 1 => nsLog[1].ns = "pid"
    /\ Len(nsLog) = 2 => (nsLog[2].ns = "mnt" /\ nsLog[1].ok)
    /\ ~envPid => nsLog = <<>>
    /\ (envPid /\ (mainPc = "fork" \/ ForkAttempted \/ watchInit)) =>
          /\ Len(nsLog) = 2
          /\ nsLog[1].ok /\ nsLog[2].ok
    /\ mainPc \in {"main", "join_pid", "join_mnt"} =>
          (childPc = "unborn" /\ ~watchInit /\ ~ForkAttempted)

\* C12: both namespaces were joined, then the child initialised fanotify
C12_Witness ==
    /\ envPid
    /\ nsLog = <<[ns |-> "pid", ok |-> TRUE], [ns |-> "mnt", ok |-> TRUE]>>
    /\ watchInit

(* C13, as stated: every line on standard output is a serialized EventInfo;
   the termination notice and the other human-readable lines are never
   written to standard output. *)
C13_StdoutOnlyEventInfo ==
    \A i \in 1..Len(stdout) : stdout[i].kind = "info"

\* the lines the parent can log for the result of waitpid
WaitLines == {"child process was killed by signal",
              "child process was stopped by signal",
              "failed to wait for child process"}

(* C14, as stated: once the parent has waited, the result is one of normal
   exit, killed by signal or stopped, and the parent has logged the line of
   that case, each case having a line of its own. *)
C14_EveryExitLogged ==
    (mainPc = "done" /\ childPc # "unborn") =>
      /\ waitRes \in {"exited", "signaled", "stopped"}
      /\ WaitMessage(waitRes) # {}
      /\ WaitMessage(waitRes) \subseteq stderr

(* C14, amended: after a successful fork the parent finishes only once the
   child has terminated; waitpid then yields normal exit, killed by signal
   or an error, never stopped.  Killed by signal and the error are each
   logged with their own line, a normal exit is logged with none.  A failed
   getpgid is logged and the parent still goes on to waitpid. *)
C14_ExitClassification ==
    /\ (mainPc = "done" /\ childPc # "unborn") =>
          /\ childStatus \notin {"none", "running"}
          /\ waitRes \in {"exited", "signaled", "err"}
          /\ waitRes = "signaled" => childStatus \in {"sigterm", "sigabrt"}
          /\ waitRes = "exited" => childStatus \in {"exit0", "exit101"}
          /\ stderr \cap WaitLines = WaitMessage(waitRes)
          /\ waitRes = "exited" => stderr \cap WaitLines = {}
    /\ mainPc # "done" => (waitRes = "none" /\ stderr \cap WaitLines = {})
    /\ "failed to get pgid" \in stderr =>
          /\ mainPc \in {"waitpid", "done"}
          /\ "forked optimizer server subprocess" \notin stderr
          /\ mainPc = "done" => waitRes # "none"

\* C14: getpgid failed, the parent still waited, and the child's normal
\* exit left no line of its own
C14_Witness ==
    /\ "failed to get pgid" \in stderr
    /\ mainPc = "done"
    /\ waitRes = "exited"
    /\ childStatus = "exit0"
    /\ stderr \cap WaitLines = {}

(* C15: the elapsed values of the EventInfo lines are non-decreasing in the
   order the lines were written, and each is a reading of the one clock
   that runs from BEGIN_TIME: none is negative or ahead of the clock. *)
C15_MonotonicTiming ==
    LET lines == InfoLines(stdout)
    IN  /\ \A i, j \in 1..Len(lines) :
             i < j => lines[i].elapsed <= lines[j].elapsed
        /\ \A i \in 1..Len(lines) :
             lines[i].elapsed >= 0 /\ lines[i].elapsed <= clock

\* C15: three lines were written, the last one later than the first
C15_Witness ==
    /\ Len(InfoLines(stdout)) >= 3
    /\ InfoLines(stdout)[1].elapsed < InfoLines(stdout)[3].elapsed

\* the positions of the child inside the `loop` of handle_fanotify_event
LoopPcs == {"poll", "polled", "handle", "check_term"}

(* C16, as stated (its last part): the child leaves the wait loop only when
   a poll return reported the termination channel readable or when the
   poll failed or returned 0; nothing else ever ends the loop. *)
C16_LoopEndsOnlyOnTerminationOrPollFailure ==
    [][ (childPc \in LoopPcs /\ childPc' \notin LoopPcs) =>
           \/ (pollRes.kind = "ok" /\ pollRes.term)
           \/ pollRes.kind = "error"
           \/ (pollRes.kind = "ok" /\ pollRes.n <= 0)
      ]_vars

(* C17, as stated (its first part): a delivery of SIGTERM to the child, at
   whatever instant, leaves the child where it is and running; it only
   makes the termination channel readable. *)
C17_DeliveryNeverDisturbsChild ==
    [][ (sigDelivered' /\ ~sigDelivered) =>
           (childPc' = childPc /\ childStatus' = childStatus /\ termReadable')
      ]_vars

(* C17, amended: once pipe::register has installed the handler, a delivery
   of SIGTERM at any point of the loop only makes the reader end readable
   and changes nothing else; event_duplicate and stdout change only in
   steps of the running child's loop, which never touch the signal state;
   and the reader end is readable only after a delivery to the registered
   handler. *)
C17_NoRaceWithTermination ==
    [][ /\ (sigRegistered /\ (sigDelivered' # sigDelivered
                              \/ termReadable' # termReadable)) =>
              /\ sigDelivered' /\ termReadable'
              /\ UNCHANGED <<mainVars, childPc, childStatus, watchVars,
                             sigRegistered, pending, loopVars, stdout,
                             stderr>>
        /\ (stdout' # stdout \/ event_duplicate' # event_duplicate) =>
              /\ childPc \in {"handle", "check_term"}
              /\ childStatus = "running"
              /\ UNCHANGED sigVars
        /\ termReadable' => (sigDelivered' /\ sigRegistered')
      ]_vars

\* C17: SIGTERM arrived in the middle of a batch, after a path was recorded
\* and before a poll return could report it
C17_Witness ==
    /\ termReadable
    /\ childPc = "handle"
    /\ batch # <<>>
    /\ ~pollRes.term
    /\ event_duplicate # <<>>

(* C18, as stated: whatever read returns, read_fanotify hands the loop a
   list of at most 1024 records, floor(bytes / record size) of them, and
   the empty list when read returned 0 or -1; the child carries on with
   that list. *)
C18_DrainReturnsBoundedList ==
    [][ (childPc = "polled" /\ pollRes.kind = "ok" /\ pollRes.n > 0
         /\ pollRes.watch /\ ChildMoves) =>
           /\ childStatus' = "running"
           /\ childPc' \in {"handle", "check_term"}
           /\ Len(batch') <= BufRecords
           /\ \E ret \in ReadReturns :
                Len(batch') = (IF ret <= 0 THEN 0
                               ELSE ret \div FAN_EVENT_METADATA_LEN)
      ]_vars

(* C19, as stated: event_duplicate holds no path twice, and it lists
   exactly the paths of the EventInfo lines on stdout, in the order the
   lines were written, also after a write whose flush failed. *)
C19_DedupMatchesOutput ==
    /\ \A i, j \in 1..Len(event_duplicate) :
         i # j => event_duplicate[i] # event_duplicate[j]
    /\ event_duplicate = InfoPaths(stdout)

\* the state only start_fanotify and the loop work on
ServerVars == <<watchInit, watchMarked, sigRegistered, pollRes, batch,
                openFds, closeCount, event_duplicate, nRead, stdout>>

(* C20: after fork the fanotify group, the mark, the loop's state and
   stdout change only in steps of the running child, which leave the
   parent where it is; only the parent, at waitpid, obtains a wait result;
   the parent of a forked child finishes only by waitpid returning for a
   terminated child or failing; and after a failed fork there is no child,
   no watch and no output, and the one process has returned. *)
C20_SupervisorRoles ==
    [][ /\ ServerVars' # ServerVars =>
              /\ childStatus = "running"
              /\ childPc \notin {"unborn", "exited", "killed"}
              /\ mainPc \in {"getpgid", "waitpid"}
              /\ UNCHANGED mainVars
        /\ waitRes' # waitRes =>
              /\ mainPc = "waitpid"
              /\ UNCHANGED <<childPc, childStatus, ServerVars>>
        /\ (mainPc' = "done" /\ mainPc # "done" /\ childPc # "unborn") =>
              /\ mainPc = "waitpid"
              /\ childStatus \notin {"none", "running"}
              /\ waitRes' \in {"exited", "signaled", "err"}
        /\ "fork failed" \in stderr' =>
              /\ mainPc' = "done"
              /\ childPc' = "unborn" /\ childStatus' = "none"
              /\ ServerVars' = ServerVars
              /\ ~watchInit' /\ ~watchMarked' /\ stdout' = <<>>
      ]_vars

\* C20: the child ran the loop, wrote a line and left on termination; the
\* parent then saw its exit
C20_Witness ==
    /\ mainPc = "done"
    /\ waitRes = "exited"
    /\ TermObserved
    /\ InfoLines(stdout) # <<>>

================================================================
